---- MODULE Spec2Model ----
(***************************************************************************)
(* Model of src/quine_mccluskey.py: the QuineMcCluskey object and the      *)
(* steps of its simplify() method.                                         *)
(*                                                                         *)
(* A term is a Python string over the characters 0, 1 and -; it is         *)
(* modelled as a sequence of one-character strings.  Python sets are       *)
(* modelled as sets; the iteration order of a Python set of strings is     *)
(* not fixed (string hashes are salted per process), so wherever the code  *)
(* depends on that order the model chooses nondeterministically.           *)
(* The number of variables ranges over 1..MaxVars.                         *)
(***************************************************************************)
EXTENDS Integers, Sequences, FiniteSets, TLC

\* Bounds of the model.
MaxVars == 3
MaxIndex == 7
MaxRuns == 2

VARIABLES
    num_variables,              \* self.num_variables
    minterms,                   \* self.minterms
    dont_cares,                 \* self.dont_cares
    all_terms,                  \* self.all_terms
    simplified_terms,           \* self.simplified_terms
    minterm_binaries,           \* local of simplify()
    terms,                      \* local of simplify(): the working set
    prime_implicants,           \* local of simplify()
    coverage_table,             \* local of simplify(): dict minterm -> implicants
    essential_prime_implicants, \* local of simplify(): the result set
    rounds,                     \* iterations of the merge loop in this call
    runs,                       \* completed calls of simplify()
    pc,                         \* position inside simplify()
    error                       \* the exception that ended simplify(), if any

vars == <<num_variables, minterms, dont_cares, all_terms, simplified_terms,
          minterm_binaries, terms, prime_implicants, coverage_table,
          essential_prime_implicants, rounds, runs, pc, error>>

-----------------------------------------------------------------------------
\* Helpers

RECURSIVE Pow2(_)
Pow2(n) == IF n = 0 THEN 1 ELSE 2 * Pow2(n - 1)

Min(a, b) == IF a < b THEN a ELSE b

\* bin(term)[2:] for term >= 0: the binary digits, most significant first,
\* at least one digit.
RECURSIVE Bin(_)
Bin(term) ==
    LET d == IF term % 2 = 1 THEN "1" ELSE "0"
    IN  IF term < 2 THEN <<d>> ELSE Bin(term \div 2) \o <<d>>

\* str.zfill(width): pad with zeros on the left up to width, never truncate.
RECURSIVE ZFill(_, _)
ZFill(s, width) == IF Len(s) >= width THEN s ELSE ZFill(<<"0">> \o s, width)

\* The encoding without the zero padding.
BinaryOf_NoPad(term, n) == Bin(term)

\* Line 21: the encoding of one index, bin(term)[2:].zfill(num_variables).
BinaryOf(term, n) == ZFill(Bin(term), n)

minterms_to_binary(ts, n) == { BinaryOf(t, n) : t \in ts }

\* The table built over every encoded term, don't-cares included.
TableKeys_AllTerms(ms, alls, n) == minterms_to_binary(alls, n)

\* Line 60: the keys of the coverage table are the encoded minterms only.
TableKeys(ms, alls, n) == minterms_to_binary(ms, n)

\* differs_by_one_bit raises IndexError when term1 is longer than term2
\* (term2[i] is read for every i in range(len(term1))).
DiffersRaises(term1, term2) == Len(term1) > Len(term2)

\* The test with "at least one" in place of "exactly one".
differs_by_one_bit_AtLeast(term1, term2) ==
    Cardinality({ i \in 1..Len(term1) : term1[i] # term2[i] }) >= 1

\* differs_by_one_bit, when it does not raise.
differs_by_one_bit(term1, term2) ==
    Cardinality({ i \in 1..Len(term1) : term1[i] # term2[i] }) = 1

\* The combination that keeps term1's character where the terms differ.
combine_binary_terms_NoDash(term1, term2) ==
    [ i \in 1..Len(term1) |-> term1[i] ]

combine_binary_terms(term1, term2) ==
    [ i \in 1..Len(term1) |-> IF term1[i] = term2[i] THEN term1[i] ELSE "-" ]

\* The cover test with any() in place of all().
covers_Any(implicant, minterm) ==
    \E i \in 1..Len(minterm) : implicant[i] = "-" \/ implicant[i] = minterm[i]

covers(implicant, minterm) ==
    \A i \in 1..Len(minterm) : implicant[i] = "-" \/ implicant[i] = minterm[i]

\* Python's order on the characters used (code points).
Ord(c) == CASE c = "-" -> 45 [] c = "0" -> 48 [] c = "1" -> 49

\* Python's < on strings.
StrLess(a, b) ==
    \/ \E i \in 1..Min(Len(a), Len(b)) :
          /\ \A j \in 1..(i - 1) : a[j] = b[j]
          /\ Ord(a[i]) < Ord(b[i])
    \/ /\ Len(a) < Len(b)
       /\ \A j \in 1..Len(a) : a[j] = b[j]

\* sorted(list(S)) for a set S of strings.
RECURSIVE sorted(_)
sorted(S) ==
    IF S = {} THEN <<>>
    ELSE LET m == CHOOSE x \in S : \A y \in S \ {x} : StrLess(x, y)
         IN  <<m>> \o sorted(S \ {m})

\* The key of max() in the greedy phase.
CoverCount(imp, table) == Cardinality({ m \in DOMAIN table : covers(imp, m) })

\* Remove from the table every minterm covered by one of the implicants.
RemoveCovered(table, imps) ==
    LET keep == { m \in DOMAIN table : \A imp \in imps : ~covers(imp, m) }
    IN  [ m \in keep |-> table[m] ]

\* The retention that overwrites the accumulated set.
RetainUnused_Overwrite(pis, ts, used) == ts \ used

\* Lines 80-82: the terms of this round that no merge used are added to the
\* accumulated prime implicants.
RetainUnused(pis, ts, used) == pis \cup (ts \ used)

\* The selection that replaces the result set by the choice.
AddChoice_Replace(result, best_choice) == {best_choice}

\* Line 107: the choice is added to the result set.
AddChoice(result, best_choice) == result \cup {best_choice}

Range(s) == { s[i] : i \in DOMAIN s }

-----------------------------------------------------------------------------
\* Inputs

Indices == 0..MaxIndex

InRange(n, idx) == idx >= 0 /\ idx < Pow2(n)

ValidInput ==
    /\ \A idx \in minterms \cup dont_cares : InRange(num_variables, idx)
    /\ minterms \cap dont_cares = {}

\* QuineMcCluskey.__init__
Constructed(n, ms, dcs) ==
    /\ num_variables = n
    /\ minterms = ms
    /\ dont_cares = dcs
    /\ all_terms = ms \cup dcs
    /\ simplified_terms = <<>>
    /\ minterm_binaries = {}
    /\ terms = {}
    /\ prime_implicants = {}
    /\ coverage_table = <<>>
    /\ essential_prime_implicants = {}
    /\ rounds = 0
    /\ runs = 0
    /\ pc = "idle"
    /\ error = "none"

\* The object is constructed from a valid input.
Init ==
    \E n \in 1..MaxVars :
      \E ms \in SUBSET { i \in Indices : InRange(n, i) } :
        \E dcs \in SUBSET ({ i \in Indices : InRange(n, i) } \ ms) :
          Constructed(n, ms, dcs)

\* The object is constructed from any input: the constructor checks nothing.
InitAnyInput ==
    \E n \in 1..MaxVars :
      \E ms \in SUBSET Indices :
        \E dcs \in SUBSET Indices :
          Constructed(n, ms, dcs)

-----------------------------------------------------------------------------
\* simplify()

\* Lines 58-64: encode the inputs, set up the working set.  The locals of
\* the call are fresh.
EnterSimplify ==
    /\ minterm_binaries' = TableKeys(minterms, all_terms, num_variables)
    /\ terms' = minterms_to_binary(all_terms, num_variables)
    /\ prime_implicants' = {}
    /\ coverage_table' = <<>>
    /\ essential_prime_implicants' = {}
    /\ rounds' = 0
    /\ pc' = "merge"
    /\ UNCHANGED <<num_variables, minterms, dont_cares, all_terms,
                   simplified_terms, runs, error>>

\* Line 177: simplify() is called on the constructed object.
Start ==
    /\ pc = "idle"
    /\ EnterSimplify

\* simplify() is called again on the same object after it returned.
Restart ==
    /\ pc = "done"
    /\ runs < MaxRuns
    /\ EnterSimplify

\* Lines 66-84: one iteration of the merge loop.
MergeRound ==
    /\ pc = "merge"
    /\ terms # {}
    /\ IF \E term1 \in terms : \E term2 \in terms :
             term1 # term2 /\ DiffersRaises(term1, term2)
       THEN /\ pc' = "error"
            /\ error' = "IndexError"
            /\ UNCHANGED <<terms, prime_implicants, rounds>>
       ELSE LET pairs == { p \in terms \X terms :
                              p[1] # p[2] /\ differs_by_one_bit(p[1], p[2]) }
                combined == { combine_binary_terms(p[1], p[2]) : p \in pairs }
                used == { p[1] : p \in pairs } \cup { p[2] : p \in pairs }
            IN  /\ prime_implicants' = RetainUnused(prime_implicants, terms, used)
                /\ terms' = combined
                /\ rounds' = rounds + 1
                /\ UNCHANGED <<pc, error>>
    /\ UNCHANGED <<num_variables, minterms, dont_cares, all_terms,
                   simplified_terms, minterm_binaries, coverage_table,
                   essential_prime_implicants, runs>>

\* Lines 86-89: the merge loop has ended; build the coverage table.
BuildCoverageTable ==
    /\ pc = "merge"
    /\ terms = {}
    /\ coverage_table' =
          [ minterm \in minterm_binaries |->
              { implicant \in prime_implicants : covers(implicant, minterm) } ]
    /\ pc' = "essential"
    /\ UNCHANGED <<num_variables, minterms, dont_cares, all_terms,
                   simplified_terms, minterm_binaries, terms, prime_implicants,
                   essential_prime_implicants, rounds, runs, error>>

\* Lines 91-95: the implicants that alone cover some minterm of the table.
EssentialOf(table) ==
    { imp \in UNION { table[m] : m \in DOMAIN table } :
        \E m \in DOMAIN table : table[m] = {imp} }

\* Lines 91-101: find the essential implicants, remove what they cover.
FindEssential ==
    /\ pc = "essential"
    /\ essential_prime_implicants' = EssentialOf(coverage_table)
    /\ coverage_table' = RemoveCovered(coverage_table, EssentialOf(coverage_table))
    /\ pc' = "greedy"
    /\ UNCHANGED <<num_variables, minterms, dont_cares, all_terms,
                   simplified_terms, minterm_binaries, terms, prime_implicants,
                   rounds, runs, error>>

\* The selection with min() in place of max().
BestChoices_Min(pis, table) ==
    { imp \in pis : \A other \in pis :
          CoverCount(other, table) >= CoverCount(imp, table) }

\* The implicants max() can return at line 106: those of greatest key.  max
\* returns the first of them in the iteration order of the set.
BestChoices(pis, table) ==
    { imp \in pis : \A other \in pis :
          CoverCount(other, table) <= CoverCount(imp, table) }

\* Lines 104-112: one iteration of the greedy loop.
SelectBest ==
    /\ pc = "greedy"
    /\ DOMAIN coverage_table # {}
    /\ IF prime_implicants = {}
       THEN /\ pc' = "error"
            /\ error' = "ValueError"
            /\ UNCHANGED <<essential_prime_implicants, coverage_table>>
       ELSE \E best_choice \in BestChoices(prime_implicants, coverage_table) :
              /\ essential_prime_implicants' =
                    AddChoice(essential_prime_implicants, best_choice)
              /\ coverage_table' = RemoveCovered(coverage_table, {best_choice})
              /\ UNCHANGED <<pc, error>>
    /\ UNCHANGED <<num_variables, minterms, dont_cares, all_terms,
                   simplified_terms, minterm_binaries, terms, prime_implicants,
                   rounds, runs>>

\* Line 115: the greedy loop has ended; store the sorted result.
StoreResult ==
    /\ pc = "greedy"
    /\ DOMAIN coverage_table = {}
    /\ simplified_terms' = sorted(essential_prime_implicants)
    /\ runs' = runs + 1
    /\ pc' = "done"
    /\ UNCHANGED <<num_variables, minterms, dont_cares, all_terms,
                   minterm_binaries, terms, prime_implicants, coverage_table,
                   essential_prime_implicants, rounds, error>>

Next ==
    \/ Start
    \/ MergeRound
    \/ BuildCoverageTable
    \/ FindEssential
    \/ SelectBest
    \/ StoreResult

Spec == Init /\ [][Next]_vars

\* The constructor accepts any input.
SpecAnyInput == InitAnyInput /\ [][Next]_vars

\* simplify() may be called more than once on one object.
NextRerun ==
    \/ Next
    \/ Restart

SpecRerun == Init /\ [][NextRerun]_vars

\* simplify() is straight-line sequential code: a started call keeps running.
FairSpec == Init /\ [][Next]_vars /\ WF_vars(Next)

-----------------------------------------------------------------------------
\* Definitions used to state the properties.  They read an index's bits
\* arithmetically, independently of the encoding above.

\* The character of position i (1 = most significant) of the width-n
\* binary encoding of idx.
BitChar(idx, i, n) == IF (idx \div Pow2(n - i)) % 2 = 1 THEN "1" ELSE "0"

\* A term matches an index when it has width n and each non-wildcard
\* position equals the corresponding bit of the index.
TermMatchesIndex(t, idx, n) ==
    /\ Len(t) = n
    /\ \A i \in 1..n : t[i] = "-" \/ t[i] = BitChar(idx, i, n)

AllIndices(n) == 0..(Pow2(n) - 1)

OnSet == minterms \cup dont_cares

WildcardCount(t) == Cardinality({ i \in 1..Len(t) : t[i] = "-" })

\* The width-n binary encoding of idx, read bit by bit.
BitsOf(idx, n) == [ i \in 1..n |-> BitChar(idx, i, n) ]

\* The prime implicants of the function whose on-set is minterms \cup
\* dont_cares: the terms of width n that match no index outside the on-set
\* (the implicants), none of whose digits can be widened to a wildcard with
\* the result still an implicant.
TruePrimeImplicants(n) ==
    LET off  == { BitsOf(idx, n) : idx \in AllIndices(n) \ OnSet }
        imps == { t \in [1..n -> {"0", "1", "-"}] :
                    \A o \in off : \E i \in 1..n : t[i] # "-" /\ t[i] # o[i] }
    IN  { t \in imps :
            \A i \in 1..n : t[i] # "-" => [t EXCEPT ![i] = "-"] \notin imps }

\* The prime implicants that are the only one matching some required minterm.
SoleCoverers ==
    UNION { LET matching == { p \in prime_implicants :
                                TermMatchesIndex(p, idx, num_variables) }
            IN  IF Cardinality(matching) = 1 THEN matching ELSE {}
            : idx \in minterms }

MergeLoopEnded == pc = "merge" /\ terms = {}

-----------------------------------------------------------------------------
\* C1 (soundness): when simplify() has finished on a valid input, every
\* index in minterms is matched by at least one term of simplified_terms.
C1_Soundness ==
    (pc = "done" /\ ValidInput) =>
        \A idx \in minterms :
            \E k \in 1..Len(simplified_terms) :
                TermMatchesIndex(simplified_terms[k], idx, num_variables)

C1_Witness ==
    /\ pc = "done"
    /\ ValidInput
    /\ Cardinality(minterms) >= 3
    /\ dont_cares # {}
    /\ Len(simplified_terms) >= 2

\* C2 (non-overreach): on a valid input no term of the output matches an
\* index outside minterms \cup dont_cares.
C2_NonOverreach ==
    (pc = "done" /\ ValidInput) =>
        \A k \in 1..Len(simplified_terms) :
            \A idx \in AllIndices(num_variables) :
                TermMatchesIndex(simplified_terms[k], idx, num_variables)
                    => idx \in OnSet

C2_Witness ==
    /\ pc = "done"
    /\ ValidInput
    /\ OnSet # AllIndices(num_variables)
    /\ \E k \in 1..Len(simplified_terms) :
          /\ WildcardCount(simplified_terms[k]) >= 1
          /\ \E idx \in dont_cares :
                TermMatchesIndex(simplified_terms[k], idx, num_variables)

\* C3 (determinism): a second run of simplify() on the same object stores
\* the same output sequence as the run before it, whichever implicant is
\* picked on a tie.
C3_Determinism ==
    [][(pc = "greedy" /\ pc' = "done" /\ runs >= 1)
          => simplified_terms' = simplified_terms]_vars

\* C4 (input validation): on an invalid input the minimization fails with
\* InvalidInput before any term is encoded, and stores no output.
C4_InputValidation ==
    ~ValidInput =>
        /\ pc \in {"idle", "error"}
        /\ pc = "error" => error = "InvalidInput"
        /\ terms = {}
        /\ minterm_binaries = {}
        /\ simplified_terms = <<>>

\* C5 (essential implicants are kept): every prime implicant that is the
\* only one matching some required minterm is in the result set after
\* phase 1, through phase 2, and in the final simplified_terms.
C5_EssentialKept ==
    ValidInput =>
        /\ pc = "greedy" => SoleCoverers \subseteq essential_prime_implicants
        /\ pc = "done" => SoleCoverers \subseteq Range(simplified_terms)

C5_Witness ==
    /\ pc = "done"
    /\ ValidInput
    /\ SoleCoverers # {}
    /\ Range(simplified_terms) \ SoleCoverers # {}

\* C6 (constant zero): with no minterms, simplify() raises nothing, selects
\* nothing and stores the empty sequence, whatever the don't-cares are.
C6_ConstantZero ==
    (minterms = {} /\ ValidInput) =>
        /\ pc # "error"
        /\ essential_prime_implicants = {}
        /\ simplified_terms = <<>>

C6_Witness ==
    /\ pc = "done"
    /\ ValidInput
    /\ minterms = {}
    /\ dont_cares # {}
    /\ prime_implicants # {}

\* C7 as stated (round bound): the merge loop runs at most num_variables
\* rounds.
C7_RoundBound ==
    ValidInput => rounds <= num_variables

\* C7 amended: the merge loop runs at most num_variables + 1 rounds; the
\* working set is empty after that many.
C7_RoundBoundAmended ==
    ValidInput =>
        /\ rounds <= num_variables + 1
        /\ (pc = "merge" /\ rounds = num_variables + 1) => terms = {}

C7_Witness ==
    /\ ValidInput
    /\ MergeLoopEnded
    /\ num_variables = 3
    /\ rounds = num_variables + 1

\* C8 (prime-implicant exactness): when the merge loop ends on a valid
\* input, prime_implicants is exactly the set of prime implicants of the
\* function whose on-set is minterms \cup dont_cares.
C8_PrimeExact ==
    (MergeLoopEnded /\ ValidInput) =>
        prime_implicants = TruePrimeImplicants(num_variables)

C8_Witness ==
    /\ MergeLoopEnded
    /\ ValidInput
    /\ dont_cares # {}
    /\ \E a \in prime_implicants : \E b \in prime_implicants :
          WildcardCount(a) = 1 /\ WildcardCount(b) = 2

\* C9 (selection terminates with an empty table): on a valid input every
\* iteration of the greedy phase raises nothing and strictly shrinks the
\* coverage table by picking an implicant that covers a remaining minterm,
\* and the call reaches its final state.
C9_SelectionTerminates ==
    /\ [][(pc = "greedy" /\ DOMAIN coverage_table # {} /\ ValidInput) =>
            /\ pc' = "greedy"
            /\ DOMAIN coverage_table' \subseteq DOMAIN coverage_table
            /\ DOMAIN coverage_table' # DOMAIN coverage_table
            /\ \E imp \in essential_prime_implicants' :
                  CoverCount(imp, coverage_table) >= 1]_vars
    /\ ValidInput => <>(pc = "done")

\* A greedy pick has been made and the table is still not empty.
C9_Witness ==
    /\ pc = "greedy"
    /\ ValidInput
    /\ DOMAIN coverage_table # {}
    /\ \E imp \in essential_prime_implicants :
          \A m \in minterm_binaries :
              { p \in prime_implicants : covers(p, m) } # {imp}

====
